---- MODULE Spec2Model ----
(***************************************************************************)
(* The two zustand stores of the ArchiAI frontend: the project store       *)
(* (store/projectStore.ts) and the UI store (store/uiStore.ts), each       *)
(* wrapped in the persist middleware writing a JSON snapshot to            *)
(* localStorage.                                                           *)
(*                                                                         *)
(* JavaScript objects are functions from property names to values, an      *)
(* array is a sequence, null is NULL.  A string that shares a field with   *)
(* null (error: string | null) is boxed by Str so that it stays comparable *)
(* with NULL.  Field values are JSON-representable (strings, booleans,     *)
(* integers, null, plain objects, arrays).                                 *)
(***************************************************************************)
EXTENDS Integers, Sequences, FiniteSets

VARIABLES
    projects,        \* ProjectState.projects
    currentProject,  \* ProjectState.currentProject
    loading,         \* ProjectState.loading
    error,           \* ProjectState.error
    sidebarOpen,     \* UIState.sidebarOpen
    theme,           \* UIState.theme
    uiLoading,       \* UIState.loading
    notifications,   \* UIState.notifications
    localStorage,    \* the host's key-value storage: key -> JSON text
    now,             \* the value Date.now() returns
    op,              \* history: the last operation called, with its arguments
    pre,             \* history: the state in which that operation was called
    notified,        \* history: the states the last operation passed to the
                     \* store's subscribers, in order
    toggles,         \* history: the toggleSidebar calls made while no
                     \* setSidebarOpen call had been made
    sidebarSet,      \* history: a setSidebarOpen call has been made
    idReads          \* history: for each notification of the sequence, the
                     \* clock reading its id was made from

vars == <<projects, currentProject, loading, error, sidebarOpen, theme,
          uiLoading, notifications, localStorage, now, op, pre, notified,
          toggles, sidebarSet, idReads>>

projectVars == <<projects, currentProject, loading, error>>
uiVars == <<sidebarOpen, theme, uiLoading, notifications>>
uiHistory == <<toggles, sidebarSet, idReads>>

----------------------------------------------------------------------------
(* Bounds of the model *)

MaxProjects == 2        \* longest projects array built by addProject / setProjects
MaxNotifications == 2   \* longest notification array built by addNotification
Clock0 == 9             \* the clock reading at start
MaxClock == 11          \* the last clock reading
MaxToggles == 2         \* most toggleSidebar calls counted

----------------------------------------------------------------------------
(* JavaScript values *)

NULL == [null |-> TRUE]

Str(s) == [str |-> s]

\* a recursive merge: a nested object of b is merged into a's, key by key
MergeDeep(a, b) ==
    [k \in (DOMAIN a) \cup (DOMAIN b) |->
        IF k \notin DOMAIN b THEN a[k]
        ELSE IF k = "location" /\ k \in DOMAIN a
             THEN [j \in (DOMAIN a[k]) \cup (DOMAIN b[k]) |->
                      IF j \in DOMAIN b[k] THEN b[k][j] ELSE a[k][j]]
             ELSE b[k]]

\* { ...a, ...b }: the keys of both, b's value wherever b has the key
Merge(a, b) ==
    [k \in (DOMAIN a) \cup (DOMAIN b) |-> IF k \in DOMAIN b THEN b[k] ELSE a[k]]

DigitChar(d) ==
    CASE d = 0 -> "0" [] d = 1 -> "1" [] d = 2 -> "2" [] d = 3 -> "3"
      [] d = 4 -> "4" [] d = 5 -> "5" [] d = 6 -> "6" [] d = 7 -> "7"
      [] d = 8 -> "8" [] d = 9 -> "9"

\* the digits of the tens only: the reading cut to a coarser unit
toStringCoarse(n) ==
    IF n < 100 THEN DigitChar(n \div 10)
    ELSE DigitChar(n \div 100) \o DigitChar((n \div 10) % 10)

\* Number.prototype.toString of a non-negative integer: its decimal digits
RECURSIVE toString(_)
toString(n) ==
    IF n < 10 THEN DigitChar(n) ELSE toString(n \div 10) \o DigitChar(n % 10)

----------------------------------------------------------------------------
(* JSON text, as the tree JSON.stringify writes and JSON.parse reads *)

JString(s) == <<"string", s>>
JBoolean(b) == <<"boolean", b>>
JNumber(n) == <<"number", n>>
JNull == <<"null">>
JObject(members) == <<"object", members>>
JArray(elements) == <<"array", elements>>

\* a Project: strings at the top level, location a nested object of strings
StringifyProject(p) ==
    JObject([k \in DOMAIN p |->
        IF k = "location"
        THEN JObject([j \in DOMAIN p[k] |-> JString(p[k][j])])
        ELSE JString(p[k])])

ParseProject(j) ==
    [k \in DOMAIN j[2] |->
        IF j[2][k][1] = "object"
        THEN [m \in DOMAIN j[2][k][2] |-> j[2][k][2][m][2]]
        ELSE j[2][k][2]]

StringifyNotification(n) ==
    JObject([k \in DOMAIN n |->
        IF k = "timestamp" THEN JNumber(n[k])
        ELSE IF k = "read" THEN JBoolean(n[k])
        ELSE JString(n[k])])

ParseNotification(j) == [k \in DOMAIN j[2] |-> j[2][k][2]]

\* one property of a store state
StringifyField(k, v) ==
    CASE k = "projects" -> JArray([i \in 1..Len(v) |-> StringifyProject(v[i])])
      [] k = "currentProject" -> IF v = NULL THEN JNull ELSE StringifyProject(v)
      [] k = "error" -> IF v = NULL THEN JNull ELSE JString(v.str)
      [] k = "notifications" ->
            JArray([i \in 1..Len(v) |-> StringifyNotification(v[i])])
      [] k = "theme" -> JString(v)
      [] OTHER -> JBoolean(v)

ParseField(k, j) ==
    CASE k = "projects" -> [i \in 1..Len(j[2]) |-> ParseProject(j[2][i])]
      [] k = "currentProject" -> IF j[1] = "null" THEN NULL ELSE ParseProject(j)
      [] k = "error" -> IF j[1] = "null" THEN NULL ELSE Str(j[2])
      [] k = "notifications" ->
            [i \in 1..Len(j[2]) |-> ParseNotification(j[2][i])]
      [] OTHER -> j[2]

\* JSON.stringify({ state, version })
Stringify(item) ==
    JObject([state |-> JObject([k \in DOMAIN item.state |->
                                   StringifyField(k, item.state[k])]),
             version |-> JNumber(item.version)])

\* JSON.parse of a stored item
Parse(text) ==
    [state |-> [k \in DOMAIN text[2].state[2] |->
                   ParseField(k, text[2].state[2][k])],
     version |-> text[2].version[2]]

----------------------------------------------------------------------------
(* localStorage *)

ProjectStorageName == "project-storage"
\* the UI store persisted under the project store's name
UIStorageNameCopied == "project-storage"

UIStorageName == "ui-storage"

HasItem(storage, name) == name \in DOMAIN storage

SetItem(storage, name, text) ==
    [k \in (DOMAIN storage) \cup {name} |-> IF k = name THEN text ELSE storage[k]]

\* persist: the state a store starts with is its initial state with the
\* stored state, when there is one, merged over it
Rehydrate(storage, name, initial) ==
    IF HasItem(storage, name) THEN Merge(initial, Parse(storage[name]).state)
    ELSE initial

----------------------------------------------------------------------------
(* The project store *)

ProjectInitialState ==
    [projects |-> <<>>, currentProject |-> NULL, loading |-> FALSE, error |-> NULL]

ProjectState ==
    [projects |-> projects, currentProject |-> currentProject,
     loading |-> loading, error |-> error]

\* a partialize that keeps every field
ProjectPartializeAll(state) ==
    [projects |-> state.projects, currentProject |-> state.currentProject,
     loading |-> state.loading, error |-> state.error]

ProjectPartialize(state) ==
    [projects |-> state.projects, currentProject |-> state.currentProject]

\* state.currentProject?.id === id
SelectedHasId(state, id) ==
    IF state.currentProject = NULL THEN FALSE ELSE state.currentProject.id = id

\* a setProjects that drops the selection with the old list
setProjectsResetSelected(list) == [projects |-> list, currentProject |-> NULL]

\* a setProjects that adds the list to the one in place
setProjectsAppend(list) == [projects |-> projects \o list]

setProjects(list) == [projects |-> list]

setCurrentProject(project) == [currentProject |-> project]

addProject(state, project) == [projects |-> Append(state.projects, project)]

\* updateProject without the patch of the selection
updateProjectListOnly(state, id, updates) ==
    [projects |->
        [i \in 1..Len(state.projects) |->
            IF state.projects[i].id = id
            THEN Merge(state.projects[i], updates)
            ELSE state.projects[i]],
     currentProject |-> state.currentProject]

\* updateProject without the patch of the list
updateProjectSelectedOnly(state, id, updates) ==
    [projects |-> state.projects,
     currentProject |->
        IF SelectedHasId(state, id) THEN Merge(state.currentProject, updates)
        ELSE state.currentProject]

\* updateProject patching every project, whatever its id
updateProjectEvery(state, id, updates) ==
    [projects |->
        [i \in 1..Len(state.projects) |-> Merge(state.projects[i], updates)],
     currentProject |->
        IF SelectedHasId(state, id) THEN Merge(state.currentProject, updates)
        ELSE state.currentProject]

updateProject(state, id, updates) ==
    [projects |->
        [i \in 1..Len(state.projects) |->
            IF state.projects[i].id = id
            THEN Merge(state.projects[i], updates)
            ELSE state.projects[i]],
     currentProject |->
        IF SelectedHasId(state, id) THEN Merge(state.currentProject, updates)
        ELSE state.currentProject]

\* deleteProject without the reset of the selection
deleteProjectKeepSelected(state, id) ==
    [projects |->
        LET keep(project) == project.id # id IN SelectSeq(state.projects, keep),
     currentProject |-> state.currentProject]

deleteProject(state, id) ==
    [projects |->
        LET keep(project) == project.id # id IN SelectSeq(state.projects, keep),
     currentProject |->
        IF SelectedHasId(state, id) THEN NULL ELSE state.currentProject]

setLoading(value) == [loading |-> value]

setError(value) == [error |-> value]

\* the whole model state, recorded in pre when an operation is called
Snapshot ==
    [projects |-> projects, currentProject |-> currentProject,
     loading |-> loading, error |-> error,
     sidebarOpen |-> sidebarOpen, theme |-> theme, uiLoading |-> uiLoading,
     notifications |-> notifications, localStorage |-> localStorage, now |-> now]

\* a set that writes the state it had before the merge
ProjectSetStale(partial) ==
    LET state == Merge(ProjectState, partial) IN
    /\ projects' = state.projects
    /\ currentProject' = state.currentProject
    /\ loading' = state.loading
    /\ error' = state.error
    /\ localStorage' = SetItem(localStorage, ProjectStorageName,
            Stringify([state |-> ProjectPartialize(ProjectState), version |-> 0]))
    /\ pre' = Snapshot
    /\ notified' = <<state>>
    /\ UNCHANGED <<uiVars, now, uiHistory>>

\* a set that takes the fields of the partial state one at a time, the list
\* first, and tells the subscribers after each
ProjectSetFieldwise(partial) ==
    LET state == Merge(ProjectState, partial) IN
    /\ projects' = state.projects
    /\ currentProject' = state.currentProject
    /\ loading' = state.loading
    /\ error' = state.error
    /\ localStorage' = SetItem(localStorage, ProjectStorageName,
            Stringify([state |-> ProjectPartialize(state), version |-> 0]))
    /\ pre' = Snapshot
    /\ notified' =
          IF {"projects", "currentProject"} \subseteq DOMAIN partial
          THEN <<Merge(ProjectState, [projects |-> partial.projects]), state>>
          ELSE <<state>>
    /\ UNCHANGED <<uiVars, now, uiHistory>>

\* set(partial) under persist: merge the partial state into the store state,
\* tell the subscribers, then write the partialized state under the store's
\* name
ProjectSet(partial) ==
    LET state == Merge(ProjectState, partial) IN
    /\ projects' = state.projects
    /\ currentProject' = state.currentProject
    /\ loading' = state.loading
    /\ error' = state.error
    /\ localStorage' = SetItem(localStorage, ProjectStorageName,
            Stringify([state |-> ProjectPartialize(state), version |-> 0]))
    /\ pre' = Snapshot
    /\ notified' = <<state>>
    /\ UNCHANGED <<uiVars, now, uiHistory>>

----------------------------------------------------------------------------
(* The calls the presentation layer can make on the project store *)

L1 == [address |-> "L1", postal_code |-> "N1"]
L2 == [address |-> "L2"]

ProjectIds == {"p1", "p2"}

ProjectInputs ==
    { [id |-> "p1", name |-> "A", location |-> L1],
      [id |-> "p2", name |-> "A", location |-> L1] }

\* arguments of setProjects: empty, distinct ids, a repeated id
ProjectListInputs ==
    { <<>>,
      <<[id |-> "p1", name |-> "A", location |-> L1],
        [id |-> "p2", name |-> "A", location |-> L1]>>,
      <<[id |-> "p1", name |-> "A", location |-> L1],
        [id |-> "p1", name |-> "B", location |-> L2]>> }

\* Partial<Project> arguments of updateProject
UpdateInputs ==
    { <<>>, [name |-> "B"], [location |-> L2], [id |-> "p2"] }

ErrorInputs == {NULL, Str("failed")}

CallSetProjects(lists) ==
    \E list \in lists :
        /\ ProjectSet(setProjects(list))
        /\ op' = [name |-> "setProjects", projects |-> list]

CallSetCurrentProject(selections) ==
    \E project \in selections \cup {projects[i] : i \in DOMAIN projects} :
        /\ ProjectSet(setCurrentProject(project))
        /\ op' = [name |-> "setCurrentProject", project |-> project]

CallAddProject(inputs) ==
    \E project \in inputs :
        /\ Len(projects) < MaxProjects
        /\ ProjectSet(addProject(ProjectState, project))
        /\ op' = [name |-> "addProject", project |-> project]

CallUpdateProject(patches) ==
    \E id \in ProjectIds, updates \in patches :
        /\ ProjectSet(updateProject(ProjectState, id, updates))
        /\ op' = [name |-> "updateProject", id |-> id, updates |-> updates]

CallDeleteProject ==
    \E id \in ProjectIds :
        /\ ProjectSet(deleteProject(ProjectState, id))
        /\ op' = [name |-> "deleteProject", id |-> id]

CallSetLoading ==
    \E value \in BOOLEAN :
        /\ ProjectSet(setLoading(value))
        /\ op' = [name |-> "setLoading", loading |-> value]

CallSetError ==
    \E value \in ErrorInputs :
        /\ ProjectSet(setError(value))
        /\ op' = [name |-> "setError", error |-> value]

----------------------------------------------------------------------------
(* The UI store *)

UIInitialState ==
    [sidebarOpen |-> TRUE, theme |-> "system", loading |-> FALSE,
     notifications |-> <<>>]

UIState ==
    [sidebarOpen |-> sidebarOpen, theme |-> theme, loading |-> uiLoading,
     notifications |-> notifications]

\* a partialize that keeps every field
UIPartializeAll(state) ==
    [sidebarOpen |-> state.sidebarOpen, theme |-> state.theme,
     loading |-> state.loading, notifications |-> state.notifications]

UIPartialize(state) == [sidebarOpen |-> state.sidebarOpen, theme |-> state.theme]

\* a toggleSidebar that only opens
toggleSidebarOpens(state) == [sidebarOpen |-> TRUE]

toggleSidebar(state) == [sidebarOpen |-> ~state.sidebarOpen]

setSidebarOpen(open) == [sidebarOpen |-> open]

setTheme(value) == [theme |-> value]

uiSetLoading(value) == [loading |-> value]

\* addNotification with the argument spread last, over the generated fields
addNotificationArgumentLast(state, notification, idTime, stampTime) ==
    [notifications |->
        Append(state.notifications,
               Merge([id |-> toString(idTime), timestamp |-> stampTime,
                      read |-> FALSE],
                     notification))]

\* addNotification without the reset of read
addNotificationKeepRead(state, notification, idTime, stampTime) ==
    [notifications |->
        Append(state.notifications,
               Merge(notification,
                     [id |-> toString(idTime), timestamp |-> stampTime]))]

\* idTime and stampTime are the two readings of Date.now(), in that order
addNotification(state, notification, idTime, stampTime) ==
    [notifications |->
        Append(state.notifications,
               Merge(notification,
                     [id |-> toString(idTime), timestamp |-> stampTime,
                      read |-> FALSE]))]

\* removeNotification with the test inverted: it keeps the id it was given
removeNotificationKeepsId(state, id) ==
    [notifications |->
        LET keep(n) == n.id = id IN SelectSeq(state.notifications, keep)]

removeNotification(state, id) ==
    [notifications |->
        LET keep(n) == n.id # id IN SelectSeq(state.notifications, keep)]

clearNotifications == [notifications |-> <<>>]

\* set(partial) under persist, the call ending at clock reading t
UISet(partial, t) ==
    LET state == Merge(UIState, partial) IN
    /\ sidebarOpen' = state.sidebarOpen
    /\ theme' = state.theme
    /\ uiLoading' = state.loading
    /\ notifications' = state.notifications
    /\ localStorage' = SetItem(localStorage, UIStorageName,
            Stringify([state |-> UIPartialize(state), version |-> 0]))
    /\ now' = t
    /\ pre' = Snapshot
    /\ notified' = <<state>>
    /\ UNCHANGED projectVars

(* The calls the presentation layer can make on the UI store *)

Themes == {"light", "dark", "system"}

\* arguments of addNotification: the three display fields alone, and a whole
\* Notification carrying its own id, timestamp and read
NotificationInputs ==
    { [type |-> "info", title |-> "T", message |-> "M"],
      [type |-> "error", title |-> "T", message |-> "M",
       id |-> "own", timestamp |-> 0, read |-> TRUE] }

Clock == Clock0..MaxClock

NotificationIds == {toString(t) : t \in Clock} \cup {"own"}

\* the id readings of the notifications that removeNotification(id) keeps
RECURSIVE ReadsKept(_, _, _)
ReadsKept(reads, list, id) ==
    IF list = <<>> THEN <<>>
    ELSE IF Head(list).id # id
         THEN <<Head(reads)>> \o ReadsKept(Tail(reads), Tail(list), id)
         ELSE ReadsKept(Tail(reads), Tail(list), id)

CallToggleSidebar ==
    /\ sidebarSet \/ toggles < MaxToggles
    /\ UISet(toggleSidebar(UIState), now)
    /\ op' = [name |-> "toggleSidebar"]
    /\ toggles' = IF sidebarSet THEN toggles ELSE toggles + 1
    /\ UNCHANGED <<sidebarSet, idReads>>

CallSetSidebarOpen ==
    \E open \in BOOLEAN :
        /\ UISet(setSidebarOpen(open), now)
        /\ op' = [name |-> "setSidebarOpen", open |-> open]
        /\ sidebarSet' = TRUE
        /\ UNCHANGED <<toggles, idReads>>

CallSetTheme ==
    \E value \in Themes :
        /\ UISet(setTheme(value), now)
        /\ op' = [name |-> "setTheme", theme |-> value]
        /\ UNCHANGED uiHistory

CallUISetLoading ==
    \E value \in BOOLEAN :
        /\ UISet(uiSetLoading(value), now)
        /\ op' = [name |-> "uiSetLoading", loading |-> value]
        /\ UNCHANGED uiHistory

\* the clock may advance between the two readings of Date.now()
CallAddNotification ==
    \E notification \in NotificationInputs, stampTime \in {now, now + 1} :
        /\ Len(notifications) < MaxNotifications
        /\ stampTime \in Clock
        /\ UISet(addNotification(UIState, notification, now, stampTime), stampTime)
        /\ op' = [name |-> "addNotification", notification |-> notification,
                  idTime |-> now, stampTime |-> stampTime]
        /\ idReads' = Append(idReads, now)
        /\ UNCHANGED <<toggles, sidebarSet>>

CallRemoveNotification ==
    \E id \in NotificationIds :
        /\ UISet(removeNotification(UIState, id), now)
        /\ op' = [name |-> "removeNotification", id |-> id]
        /\ idReads' = ReadsKept(idReads, notifications, id)
        /\ UNCHANGED <<toggles, sidebarSet>>

CallClearNotifications ==
    /\ UISet(clearNotifications, now)
    /\ op' = [name |-> "clearNotifications"]
    /\ idReads' = <<>>
    /\ UNCHANGED <<toggles, sidebarSet>>

\* time passes between calls
Tick ==
    /\ now + 1 \in Clock
    /\ now' = now + 1
    /\ UNCHANGED <<projectVars, uiVars, localStorage, op, pre, notified,
                   uiHistory>>

----------------------------------------------------------------------------
(* A reload: the page's memory is discarded and both stores are created    *)
(* again, each from its initial state and its stored item.                 *)

Reload ==
    LET p == Rehydrate(localStorage, ProjectStorageName, ProjectInitialState)
        u == Rehydrate(localStorage, UIStorageName, UIInitialState)
    IN  /\ projects' = p.projects
        /\ currentProject' = p.currentProject
        /\ loading' = p.loading
        /\ error' = p.error
        /\ sidebarOpen' = u.sidebarOpen
        /\ theme' = u.theme
        /\ uiLoading' = u.loading
        /\ notifications' = u.notifications
        /\ op' = [name |-> "reload"]
        /\ pre' = Snapshot
        /\ notified' = <<>>
        /\ idReads' = <<>>
        /\ UNCHANGED <<localStorage, now, toggles, sidebarSet>>

----------------------------------------------------------------------------
(* Specifications *)

Init ==
    /\ projects = ProjectInitialState.projects
    /\ currentProject = ProjectInitialState.currentProject
    /\ loading = ProjectInitialState.loading
    /\ error = ProjectInitialState.error
    /\ sidebarOpen = UIInitialState.sidebarOpen
    /\ theme = UIInitialState.theme
    /\ uiLoading = UIInitialState.loading
    /\ notifications = UIInitialState.notifications
    /\ localStorage = <<>>
    /\ now = Clock0
    /\ op = [name |-> "create"]
    /\ pre = [projects |-> <<>>, currentProject |-> NULL, loading |-> FALSE,
              error |-> NULL, sidebarOpen |-> TRUE, theme |-> "system",
              uiLoading |-> FALSE, notifications |-> <<>>,
              localStorage |-> <<>>, now |-> Clock0]
    /\ notified = <<>>
    /\ toggles = 0
    /\ sidebarSet = FALSE
    /\ idReads = <<>>

\* the project list and the selection
ProjectNext ==
    \/ CallSetProjects(ProjectListInputs)
    \/ CallSetCurrentProject(ProjectInputs \cup {NULL})
    \/ CallAddProject(ProjectInputs)
    \/ CallUpdateProject(UpdateInputs)
    \/ CallDeleteProject

ProjectSpec == Init /\ [][ProjectNext]_vars

\* the project store and its stored item, across reloads
PersistListInputs ==
    { <<>>,
      <<[id |-> "p1", name |-> "A", location |-> L1],
        [id |-> "p2", name |-> "A", location |-> L1]>> }

PersistUpdateInputs == { [name |-> "B"] }

PersistNext ==
    \/ CallSetProjects(PersistListInputs)
    \/ CallSetCurrentProject({NULL})
    \/ CallAddProject(ProjectInputs)
    \/ CallUpdateProject(PersistUpdateInputs)
    \/ CallDeleteProject
    \/ CallSetLoading
    \/ CallSetError
    \/ Reload

PersistSpec == Init /\ [][PersistNext]_vars

\* the UI store and its stored item, across reloads
UINext ==
    \/ CallToggleSidebar
    \/ CallSetSidebarOpen
    \/ CallSetTheme
    \/ CallUISetLoading
    \/ CallAddNotification
    \/ CallRemoveNotification
    \/ CallClearNotifications
    \/ Tick
    \/ Reload

UISpec == Init /\ [][UINext]_vars

\* both stores side by side: every operation of each, on one project and
\* one notification made at the first clock reading
StoresListInputs == { <<>> }

StoresProjectInputs == { [id |-> "p1", name |-> "A", location |-> L1] }

StoresUpdateInputs == { <<>> }

StoresNext ==
    \/ CallSetProjects(StoresListInputs)
    \/ CallSetCurrentProject({NULL})
    \/ (projects = <<>> /\ CallAddProject(StoresProjectInputs))
    \/ CallUpdateProject(StoresUpdateInputs)
    \/ CallDeleteProject
    \/ CallSetLoading
    \/ CallSetError
    \/ CallToggleSidebar
    \/ CallSetSidebarOpen
    \/ CallSetTheme
    \/ CallUISetLoading
    \/ (notifications = <<>> /\ now = Clock0 /\ CallAddNotification)
    \/ CallRemoveNotification
    \/ CallClearNotifications

StoresSpec == Init /\ [][StoresNext]_vars

----------------------------------------------------------------------------
(* Properties of the project list and the selection (ProjectSpec) *)

HasProjectWithId(list, id) == \E i \in DOMAIN list : list[i].id = id

\* C1: when a project with id X is selected, deleteProject(X) leaves no
\* selection and no project with id X in the list, and deleteProject(Y) for
\* Y # X leaves the selection as it was.
C1_DeleteSelection ==
    (op.name = "deleteProject" /\ pre.currentProject # NULL) =>
        IF pre.currentProject.id = op.id
        THEN currentProject = NULL /\ ~HasProjectWithId(projects, op.id)
        ELSE currentProject = pre.currentProject

C1_Witness ==
    /\ op.name = "deleteProject"
    /\ pre.currentProject # NULL
    /\ pre.currentProject.id = op.id
    /\ HasProjectWithId(pre.projects, op.id)
    /\ Len(projects) < Len(pre.projects)
    /\ projects # <<>>

\* C2 as stated: when no project of the list has id X, updateProject(X, patch)
\* leaves the list and the selection as they were.
C2_NoOpUpdate ==
    (op.name = "updateProject" /\ ~HasProjectWithId(pre.projects, op.id)) =>
        /\ projects = pre.projects
        /\ currentProject = pre.currentProject

\* C2 amended: when no project of the list has id X, updateProject(X, patch)
\* leaves the list as it was; it leaves the selection as it was unless the
\* selected project has id X, and then the selection is the old one with the
\* patch merged over it.
C2_NoOpUpdateAmended ==
    (op.name = "updateProject" /\ ~HasProjectWithId(pre.projects, op.id)) =>
        /\ projects = pre.projects
        /\ currentProject =
              IF pre.currentProject # NULL /\ pre.currentProject.id = op.id
              THEN Merge(pre.currentProject, op.updates)
              ELSE pre.currentProject

C2_Witness ==
    /\ op.name = "updateProject"
    /\ ~HasProjectWithId(pre.projects, op.id)
    /\ pre.projects # <<>>
    /\ pre.currentProject # NULL
    /\ pre.currentProject.id = op.id
    /\ currentProject # pre.currentProject

\* C3: when the selected project has id X, after updateProject(X, patch)
\* every project of the list that had id X, and the selection, hold the
\* patch's value under every key of the patch.
C3_UpdateMirrors ==
    (op.name = "updateProject" /\ pre.currentProject # NULL
                               /\ pre.currentProject.id = op.id) =>
        /\ \A i \in DOMAIN pre.projects :
              pre.projects[i].id = op.id =>
                 /\ i \in DOMAIN projects
                 /\ \A k \in DOMAIN op.updates :
                       k \in DOMAIN projects[i] /\ projects[i][k] = op.updates[k]
        /\ currentProject # NULL
        /\ \A k \in DOMAIN op.updates :
              k \in DOMAIN currentProject /\ currentProject[k] = op.updates[k]

C3_Witness ==
    /\ op.name = "updateProject"
    /\ pre.currentProject # NULL
    /\ pre.currentProject.id = op.id
    /\ HasProjectWithId(pre.projects, op.id)
    /\ "name" \in DOMAIN op.updates
    /\ pre.currentProject.name # op.updates.name
    /\ currentProject.name = op.updates.name

\* C4: updateProject(X, patch) keeps the length and the order of the list;
\* a project with another id is as it was; a project with id X has the keys
\* it had and the patch's, with the patch's value under a key of the patch
\* (a nested value such as location is replaced whole) and its own value
\* under every other key.
C4_ShallowMerge ==
    op.name = "updateProject" =>
        /\ Len(projects) = Len(pre.projects)
        /\ \A i \in DOMAIN pre.projects :
              IF pre.projects[i].id = op.id
              THEN /\ DOMAIN projects[i] =
                         (DOMAIN pre.projects[i]) \cup (DOMAIN op.updates)
                   /\ \A k \in DOMAIN projects[i] :
                         projects[i][k] = IF k \in DOMAIN op.updates
                                          THEN op.updates[k]
                                          ELSE pre.projects[i][k]
              ELSE projects[i] = pre.projects[i]

C4_Witness ==
    /\ op.name = "updateProject"
    /\ Len(pre.projects) = 2
    /\ pre.projects[1].id # op.id
    /\ pre.projects[2].id = op.id
    /\ "location" \in DOMAIN op.updates
    /\ "postal_code" \in DOMAIN pre.projects[2].location
    /\ "postal_code" \notin DOMAIN projects[2].location
    /\ projects[2].name = pre.projects[2].name

\* the selection is null or equal to a project of the list
SelectionInList(list, selected) ==
    selected = NULL \/ \E i \in DOMAIN list : list[i] = selected

\* C18: when the selection is null or equal to a project of the list, it
\* still is after addProject, updateProject and deleteProject; only
\* setProjects and setCurrentProject take the selection out of the list.
C18_SelectionMembership ==
    /\ (op.name \in {"addProject", "updateProject", "deleteProject"}
            /\ SelectionInList(pre.projects, pre.currentProject)) =>
          SelectionInList(projects, currentProject)
    /\ (SelectionInList(pre.projects, pre.currentProject)
            /\ ~SelectionInList(projects, currentProject)) =>
          op.name \in {"setProjects", "setCurrentProject"}

C18_Witness ==
    /\ op.name = "updateProject"
    /\ pre.currentProject # NULL
    /\ pre.currentProject.id = op.id
    /\ SelectionInList(pre.projects, pre.currentProject)
    /\ "id" \in DOMAIN op.updates
    /\ currentProject # pre.currentProject
    /\ Len(projects) = 2
    /\ SelectionInList(projects, currentProject)

UniqueIds(list) ==
    \A i, j \in DOMAIN list : i # j => list[i].id # list[j].id

\* C19: when the ids of the list are pairwise distinct, they still are after
\* updateProject(id, patch) and deleteProject(id), for every id and patch,
\* a patch with an id field included.
C19_UniquenessPreserved ==
    (op.name \in {"updateProject", "deleteProject"} /\ UniqueIds(pre.projects))
        => UniqueIds(projects)

\* C10: no two projects of the list have the same id.
C10_UniqueIds ==
    \A i, j \in DOMAIN projects : i # j => projects[i].id # projects[j].id

----------------------------------------------------------------------------
(* Properties of the project store's stored item (PersistSpec) *)

ProjectMutations ==
    {"setProjects", "setCurrentProject", "addProject", "updateProject",
     "deleteProject", "setLoading", "setError"}

C6_ProjectSnapshot ==
    /\ op.name \in ProjectMutations => HasItem(localStorage, ProjectStorageName)
    /\ HasItem(localStorage, ProjectStorageName) =>
          LET stored == Parse(localStorage[ProjectStorageName]).state IN
          /\ DOMAIN stored = {"projects", "currentProject"}
          /\ stored.projects = projects
          /\ stored.currentProject = currentProject

C6_Witness ==
    /\ op.name = "updateProject"
    /\ projects # pre.projects
    /\ currentProject # pre.currentProject
    /\ loading = TRUE
    /\ error # NULL
    /\ HasItem(localStorage, ProjectStorageName)

----------------------------------------------------------------------------
(* Properties of the UI store (UISpec) *)

\* C7: after a reload, sidebarOpen and theme are what they were before it,
\* notifications is empty and loading is false.
C7_UIRoundTrip ==
    op.name = "reload" =>
        /\ sidebarOpen = pre.sidebarOpen
        /\ theme = pre.theme
        /\ notifications = <<>>
        /\ uiLoading = FALSE

C7_Witness ==
    /\ op.name = "reload"
    /\ pre.sidebarOpen = FALSE
    /\ pre.theme = "dark"
    /\ pre.uiLoading = TRUE
    /\ pre.notifications # <<>>

\* the sequence without its first notification of the given id
RECURSIVE RemoveFirst(_, _)
RemoveFirst(list, id) ==
    IF list = <<>> THEN <<>>
    ELSE IF Head(list).id = id THEN Tail(list)
         ELSE <<Head(list)>> \o RemoveFirst(Tail(list), id)

\* C8: removeNotification(id) removes at most one notification, the first
\* one of that id, and leaves the others in their order.
C8_RemovesFirstOnly ==
    op.name = "removeNotification" =>
        notifications = RemoveFirst(pre.notifications, op.id)

\* C9: addNotification(fields) leaves the notifications it found in place and
\* appends one, with the type, title and message of the argument, the id and
\* the timestamp read from the clock during the call, and read false,
\* whatever id, timestamp and read the argument carries.
C9_AddAppendsOne ==
    op.name = "addNotification" =>
        /\ Len(notifications) = Len(pre.notifications) + 1
        /\ SubSeq(notifications, 1, Len(pre.notifications)) = pre.notifications
        /\ LET added == notifications[Len(notifications)] IN
           /\ added.type = op.notification.type
           /\ added.title = op.notification.title
           /\ added.message = op.notification.message
           /\ op.idTime = pre.now
           /\ op.stampTime \in {pre.now, pre.now + 1}
           /\ added.id = toString(op.idTime)
           /\ added.timestamp = op.stampTime
           /\ added.read = FALSE

C9_Witness ==
    /\ op.name = "addNotification"
    /\ pre.notifications # <<>>
    /\ "id" \in DOMAIN op.notification
    /\ op.notification.read = TRUE
    /\ op.stampTime > op.idTime
    /\ Len(notifications) = 2

\* C11: every notification of the sequence has read = false.
C11_ReadIsFalse ==
    \A i \in DOMAIN notifications :
        "read" \in DOMAIN notifications[i] /\ notifications[i].read = FALSE

C11_Witness ==
    /\ op.name = "addNotification"
    /\ "read" \in DOMAIN op.notification
    /\ op.notification.read = TRUE
    /\ Len(notifications) = 2
    /\ now > pre.now

\* C15: toggleSidebar negates sidebarOpen and leaves theme, loading and
\* notifications as they were, so that one more toggleSidebar gives back the
\* state it was called in; and as long as setSidebarOpen has not been called,
\* sidebarOpen is true exactly when the number of toggleSidebar calls is even.
C15_ToggleFlips ==
    /\ op.name = "toggleSidebar" =>
          /\ sidebarOpen = ~pre.sidebarOpen
          /\ theme = pre.theme
          /\ uiLoading = pre.uiLoading
          /\ notifications = pre.notifications
          /\ LET again == Merge(UIState, toggleSidebar(UIState)) IN
             /\ again.sidebarOpen = pre.sidebarOpen
             /\ again.theme = pre.theme
             /\ again.loading = pre.uiLoading
             /\ again.notifications = pre.notifications
    /\ ~sidebarSet => (sidebarOpen <=> toggles % 2 = 0)

C15_Witness ==
    /\ op.name = "toggleSidebar"
    /\ ~sidebarSet
    /\ toggles = 2
    /\ sidebarOpen = TRUE
    /\ theme = "dark"
    /\ notifications # <<>>

\* C17: a notification leaves the sequence only in a removeNotification of
\* its id or in clearNotifications: toggleSidebar, setSidebarOpen, setTheme
\* and setLoading leave the sequence as it was, addNotification keeps it as
\* a prefix, removeNotification(id) keeps the notifications of another id in
\* their order, clearNotifications leaves the empty sequence, and the
\* passing of time changes nothing.
C17_NoExpiry ==
    /\ op.name \in {"toggleSidebar", "setSidebarOpen", "setTheme", "uiSetLoading"}
          => notifications = pre.notifications
    /\ op.name = "addNotification" =>
          /\ Len(notifications) > Len(pre.notifications)
          /\ SubSeq(notifications, 1, Len(pre.notifications)) = pre.notifications
    /\ op.name = "removeNotification" =>
          LET other(n) == n.id # op.id IN
          notifications = SelectSeq(pre.notifications, other)
    /\ op.name = "clearNotifications" => notifications = <<>>

C17_Witness ==
    /\ op.name = "removeNotification"
    /\ Len(pre.notifications) = 2
    /\ pre.notifications[1].id # op.id
    /\ pre.notifications[2].id = op.id
    /\ notifications = <<pre.notifications[1]>>
    /\ now > notifications[1].timestamp

\* C20: two notifications of the sequence have the same id only when their
\* ids were made from the same clock reading; when every id was made from a
\* later reading than the one before, the ids are pairwise distinct.
C20_IdCollisions ==
    /\ Len(idReads) = Len(notifications)
    /\ \A i, j \in DOMAIN notifications :
          notifications[i].id = notifications[j].id => idReads[i] = idReads[j]
    /\ (\A i, j \in DOMAIN notifications : i < j => idReads[i] < idReads[j]) =>
          \A i, j \in DOMAIN notifications :
              i # j => notifications[i].id # notifications[j].id

C20_Witness ==
    /\ Len(notifications) = 2
    /\ notifications[1].id = notifications[2].id
    /\ notifications[1].timestamp # notifications[2].timestamp
    /\ idReads[1] = idReads[2]

----------------------------------------------------------------------------
(* Frame properties of the project store (PersistSpec) *)

\* C12: setProjects, addProject, setLoading and setError leave currentProject
\* as it was, also when the new list has no project of the selected id;
\* addProject appends its argument to the list it found; and currentProject
\* changes only in setCurrentProject, or in updateProject or deleteProject
\* called with the selected project's id.
C12_SelectionFrame ==
    /\ op.name \in {"setProjects", "addProject", "setLoading", "setError"} =>
          currentProject = pre.currentProject
    /\ op.name = "addProject" => projects = Append(pre.projects, op.project)
    /\ currentProject # pre.currentProject =>
          \/ op.name = "setCurrentProject"
          \/ /\ op.name \in {"updateProject", "deleteProject"}
             /\ pre.currentProject # NULL
             /\ pre.currentProject.id = op.id

C12_Witness ==
    /\ op.name = "setProjects"
    /\ pre.currentProject # NULL
    /\ HasProjectWithId(pre.projects, pre.currentProject.id)
    /\ ~HasProjectWithId(projects, pre.currentProject.id)
    /\ currentProject = pre.currentProject

\* C13: a setProjects(L) called right after a setProjects(L) leaves the store
\* and its stored item as the first call left them, with projects = L.
C13_IdempotentReplace ==
    [][(op.name = "setProjects" /\ op'.name = "setProjects"
                                /\ op'.projects = op.projects) =>
          /\ projects' = op'.projects
          /\ projects' = projects
          /\ currentProject' = currentProject
          /\ loading' = loading
          /\ error' = error
          /\ localStorage' = localStorage]_vars

C13_Witness ==
    /\ op.name = "setProjects"
    /\ Len(op.projects) = 2
    /\ pre.projects = op.projects
    /\ projects = op.projects
    /\ pre.localStorage = localStorage
    /\ currentProject # NULL
    /\ loading = TRUE

----------------------------------------------------------------------------
(* The two stores side by side (StoresSpec) *)

UIOperations ==
    {"toggleSidebar", "setSidebarOpen", "setTheme", "uiSetLoading",
     "addNotification", "removeNotification", "clearNotifications"}

SameItem(a, b, name) ==
    /\ HasItem(a, name) = HasItem(b, name)
    /\ HasItem(a, name) => a[name] = b[name]

\* C14: an operation of the project store changes no field of the UI store
\* and not the item stored under "ui-storage"; an operation of the UI store
\* changes no field of the project store and not the item stored under
\* "project-storage".
C14_StoresIndependent ==
    /\ op.name \in ProjectMutations =>
          /\ sidebarOpen = pre.sidebarOpen
          /\ theme = pre.theme
          /\ uiLoading = pre.uiLoading
          /\ notifications = pre.notifications
          /\ SameItem(localStorage, pre.localStorage, "ui-storage")
    /\ op.name \in UIOperations =>
          /\ projects = pre.projects
          /\ currentProject = pre.currentProject
          /\ loading = pre.loading
          /\ error = pre.error
          /\ SameItem(localStorage, pre.localStorage, "project-storage")

C14_Witness ==
    /\ op.name = "uiSetLoading"
    /\ uiLoading = FALSE
    /\ pre.uiLoading = TRUE
    /\ loading = TRUE
    /\ projects # <<>>
    /\ notifications # <<>>
    /\ HasItem(pre.localStorage, "project-storage")
    /\ HasItem(pre.localStorage, "ui-storage")

----------------------------------------------------------------------------
(* What the subscribers of the project store are told (ProjectSpec) *)

\* C16: an operation of the project store is one transition: its subscribers
\* are told once, of the state the operation ends in, so that after
\* updateProject and deleteProject no subscriber is given the new list with
\* the old selection.
C16_AtomicMutation ==
    op.name \in ProjectMutations =>
        /\ notified = <<ProjectState>>
        /\ \A i \in DOMAIN notified :
              /\ notified[i].projects = projects
              /\ notified[i].currentProject = currentProject

C16_Witness ==
    /\ op.name = "deleteProject"
    /\ pre.currentProject # NULL
    /\ pre.currentProject.id = op.id
    /\ projects # pre.projects
    /\ currentProject = NULL
    /\ Len(notified) = 1

====
